---- MODULE Spec2Model ----
(***************************************************************************)
(* Kangaroo: the batch download orchestrator (kangaroo/kangaroo.py,        *)
(* class DownloadTask) and the retrying fetch (main.py,                    *)
(* CertificateParser.parse), as a state machine.                           *)
(*                                                                         *)
(* Three kinds of thread act on one DownloadTask:                          *)
(*   - the download thread spawned by asyncStart(), which runs start();    *)
(*   - the workers of the ThreadPoolExecutor, which run parseWrapper();    *)
(*   - the caller's (user interface) thread, which runs stop() and, after  *)
(*     a FILE_EXISTS error, saveFile(True).                                *)
(* Every step below is one statement (or one run of statements that touch  *)
(* no shared field) of the source; threads interleave between steps.       *)
(*                                                                         *)
(* concurrent.futures as used here: submit() queues a pending future; a    *)
(* worker takes the oldest queued one and runs it, at most _max_workers at *)
(* a time; cancel() succeeds only on a pending future; leaving the with    *)
(* block waits until every queued future has run or was cancelled.         *)
(* Timestamps (started_last, _creation_time, _completion_time) decide no   *)
(* branch and are left out; _download_times is kept by its length, and     *)
(* eta is computed for every list of whole samples of that length.         *)
(*                                                                         *)
(* Specifications:                                                         *)
(*   Spec       one task, either mode, its caller, a resolvable file name  *)
(*              in an existing folder;                                     *)
(*   SpecFair   Spec with the threads scheduled fairly;                    *)
(*   SpecSave   a sequential task under every configuration saveFile()     *)
(*              distinguishes, saveFile() one statement per step, called   *)
(*              by the caller too, with a second writer of the same path;  *)
(*   SpecParse  one call of CertificateParser.parse;                       *)
(*   SpecSetter Spec with the state setter one statement per step (emit,   *)
(*              then assign);                                              *)
(*   SpecModel  KangarooModel's list of tasks under createDownload() and   *)
(*              deleteTask(), each task starting and ceasing to run.       *)
(***************************************************************************)
EXTENDS Integers, Sequences, FiniteSets, TLC

\* ------------------------------------------------------------------ bounds
\* batch_size of the modelled task (kangaroo.py:76 sets 1000, :430 sets 100)
BatchSize == 3
\* _max_workers of the modelled task (kangaroo.py:75 sets 8)
MaxWorkers == 2
\* batch numbers range over 1..MaxBatch
MaxBatch == 2
\* number of stop() calls the caller makes
MaxStops == 1
\* number of saveFile() calls made on the task
MaxSaves == 2
\* timing samples are whole numbers in 0..MaxSample
MaxSample == 2
\* KangarooModel registers at most MaxTasks tasks
MaxTasks == 3

\* CertificateParser._retry_attempts
retry_attempts == 4
\* KangarooModel._max_downloads
max_downloads == 0

VARIABLES
    \* --- DownloadTask fields
    batch,              \* _batch
    threaded,           \* threaded
    state,              \* _state
    download_log,       \* _download_log: sequence of <<cert_number, cert_state>>
    download_statuses,  \* _download_statuses: sequence of cert_state
    download_times,     \* len(_download_times)
    download_items,     \* _download_items: dict cert -> future handle | parse result
    current_cert,       \* current_cert (NoCert until first assigned)
    cancel_event,       \* cancel_event.is_set()
    cert_data,          \* self.cert_data (NotSet until line 192)
    output_file,        \* _output_file
    file_size,          \* _file_size
    md5,                \* _md5
    sha1,               \* _sha1
    \* --- signals emitted
    state_change,       \* sequence of [new, stored]: state_change.emit(new) while _state = stored
    download_progress,  \* number of download_progress.emit()
    saving_error,       \* sequence of KangarooWarning emitted
    \* --- the executor of start()
    futures,            \* cert -> [st, result]: the Future of executor.submit(parseWrapper, cert)
    \* --- the download thread (start)
    mpc,                \* position in start()/saveFile()
    cert,               \* loop variable of line 171
    cert_no,            \* loop variable of line 181
    local_cert_data,    \* local cert_data of start()
    \* --- the caller's thread (stop, saveFile(True))
    upc,                \* position in stop()/saveFile(True)
    it_pos,             \* items already yielded by the iterator of line 239
    it_size,            \* size of _download_items when that iterator was created
    stops,              \* stop() calls made so far
    ask_overwrite,      \* a FILE_EXISTS dialog is waiting for the user's answer
    \* --- the file system
    name_valid,         \* the filename template has only known placeholders
    folder_exists,      \* Path(_folder).exists()
    file,               \* content of the resolved output path, or NoFile
    \* --- history of the run
    dispatched,         \* certs for which parseWrapper was submitted / called
    returned,           \* cert -> what parse(cert) returned
    stop_early,         \* stop() set STOPPED on a Started task with fewer than batch_size certs dispatched
    stop_fetched,       \* in sequential mode: fetched_certs at each step where stop() assigned STOPPED
    saves,              \* number of saveFile() calls entered
    \* --- a single call of CertificateParser.parse
    p_code,             \* number_code
    p_resp,             \* what browser.open does on its 1st, 2nd, ... call
    p_out,              \* result of the call, or NotSet
    \* --- KangarooModel and its caller
    model_download_items, \* KangarooModel._download_items: sequence of [batch, threaded, running, started]
    create              \* what the last createDownload() returned, or NotSet

taskvars == <<batch, threaded, state, download_log, download_statuses, download_times,
              download_items, current_cert, cancel_event, cert_data, output_file,
              file_size, md5, sha1>>
sigvars == <<state_change, download_progress, saving_error>>
mvars == <<mpc, cert, cert_no, local_cert_data>>
uvars == <<upc, it_pos, it_size, stops, ask_overwrite>>
fsvars == <<name_valid, folder_exists, file>>
histvars == <<dispatched, returned, stop_early, stop_fetched, saves>>
pvars == <<p_code, p_resp, p_out>>
kvars == <<model_download_items, create>>
vars == <<taskvars, sigvars, futures, mvars, uvars, fsvars, histvars, pvars, kvars>>

\* ------------------------------------------------------------ Python values
PyNone == [kind |-> "None"]
PyFalse == [kind |-> "False"]
NotSet == [kind |-> "unset"]
\* an exception raised instead of a value returned
Raised == [kind |-> "raise"]
\* a dict, as the sequence of its <<key, value>> items in insertion order
Dict(items) == [kind |-> "dict", items |-> items]
\* bool(v)
Truthy(v) == v.kind = "dict" /\ v.items # <<>>
\* d.keys(), d[key], and d after d[key] = value (a new key goes last)
Keys(d) == {d.items[n][1] : n \in DOMAIN d.items}
Get(d, key) == d.items[CHOOSE n \in DOMAIN d.items : d.items[n][1] = key][2]
Put(d, key, value) ==
    IF key \in Keys(d)
    THEN Dict([n \in DOMAIN d.items |->
                 IF d.items[n][1] = key THEN <<key, value>> ELSE d.items[n]])
    ELSE Dict(Append(d.items, <<key, value>>))
\* v after v.pop(key)
Pop(v, key) == LET Other(kv) == kv[1] # key IN Dict(SelectSeq(v.items, Other))
\* the Future handle stored in _download_items in threaded mode
FutureOf(c) == [kind |-> "future", cert |-> c]

NoCert == -1
NoFile == [kind |-> "nofile"]
\* a file at the output path that this task did not write
Foreign == [kind |-> "foreign"]

DownloadStates == {"CREATED", "STARTED", "COMPLETED", "SAVED", "STOPPED"}

\* ------------------------------------------------- CertificateParser.parse
\* What one call of browser.open / the page it loads can be.
Responses == {"conn", "other", "found", "missing", "absent"}

\* the dict built at lines 89-98 (one payload field stands for the nine)
student_dict(number_code) ==
    Dict(<< <<"number", number_code>>, <<"certificado", number_code>> >>)

\* (mutant) the loop gives up one attempt early
RECURSIVE openLoop_short(_, _)
openLoop_short(resp, attempts) ==
    IF attempts + 1 < retry_attempts
    THEN IF resp[attempts + 1] = "conn"
         THEN openLoop_short(resp, attempts + 1)
         ELSE [request_ok |-> resp[attempts + 1] # "other", page |-> resp[attempts + 1],
               attempts |-> attempts, opens |-> attempts + 1]
    ELSE [request_ok |-> FALSE, page |-> "none", attempts |-> attempts, opens |-> attempts]

\* The retry loop, lines 55-65: resp[n] is what the n-th browser.open does.
\* attempts counts the ConnectionErrors caught; opens the calls made.
RECURSIVE openLoop(_, _)
openLoop(resp, attempts) ==
    IF attempts < retry_attempts
    THEN IF resp[attempts + 1] = "conn"
         THEN openLoop(resp, attempts + 1)
         ELSE [request_ok |-> resp[attempts + 1] # "other", page |-> resp[attempts + 1],
               attempts |-> attempts, opens |-> attempts + 1]
    ELSE [request_ok |-> FALSE, page |-> "none", attempts |-> attempts, opens |-> attempts]

\* parse(number_code): the value returned (or Raised) and the browser.open calls made
parse(number_code, resp) ==
    LET o == openLoop(resp, 0) IN
    [opens |-> o.opens,
     ret |-> IF o.page = "other" THEN Raised
             ELSE IF ~o.request_ok THEN PyFalse
             ELSE IF o.page = "found" THEN student_dict(number_code)
             ELSE IF o.page = "missing" THEN PyFalse
             ELSE PyNone]

\* The fetch behaviours the download model draws from: one per class of
\* outcome, and one that succeeds after a retry.
Const(r) == [n \in 1..retry_attempts |-> r]
FetchScripts ==
    {Const("found"), Const("absent"), Const("missing"), Const("conn"), Const("other"),
     [n \in 1..retry_attempts |-> IF n = 1 THEN "conn" ELSE "found"]}

\* ------------------------------------------------------------ DownloadTask
\* range_start, lines 316-318
range_start == BatchSize * (batch - 1)
\* range_end, lines 320-322
range_end == BatchSize * batch
Range == range_start .. (range_end - 1)

running == state \notin {"STOPPED", "COMPLETED", "SAVED"}
cancelled == state = "STOPPED"

Count(seq, x) == Cardinality({n \in DOMAIN seq : seq[n] = x})
fetched_certs == Len(download_statuses)
successful_certs == Count(download_statuses, "DOWNLOADED")
failed_certs == Count(download_statuses, "FAILED")
not_found_certs == Count(download_statuses, "NOT_FOUND")

\* the state setter, lines 336-339: emit, then assign
SetState(new_state) ==
    /\ state_change' = Append(state_change, [new |-> new_state, stored |-> state])
    /\ state' = new_state

\* (mutant) a failed fetch is logged under a state that no counter counts
CertStateOf_uncounted(cert_item) ==
    IF cert_item = PyNone THEN "NOT_FOUND"
    ELSE IF cert_item = PyFalse THEN "ERROR"
    ELSE "DOWNLOADED"

\* (mutant) the states of an absent and of a failed fetch are exchanged
CertStateOf_swapped(cert_item) ==
    IF cert_item = PyNone THEN "FAILED"
    ELSE IF cert_item = PyFalse THEN "NOT_FOUND"
    ELSE "DOWNLOADED"

\* logDownloadState, lines 244-253
CertStateOf(cert_item) ==
    IF cert_item = PyNone THEN "NOT_FOUND"
    ELSE IF cert_item = PyFalse THEN "FAILED"
    ELSE "DOWNLOADED"

logDownloadState(cert_item, cert_number) ==
    /\ download_log' = Append(download_log, <<cert_number, CertStateOf(cert_item)>>)
    /\ download_statuses' = Append(download_statuses, CertStateOf(cert_item))

\* (mutant) the notification is emitted for every fetch in both modes
parseWrapper_emit_all(cert_parse, cert_number) ==
    /\ logDownloadState(cert_parse, cert_number)
    /\ download_progress' = download_progress + 1
    /\ IF (cert_number % MaxWorkers = 0) \/ ~threaded
       THEN /\ current_cert' = cert_number
            /\ download_times' = download_times + 1
       ELSE UNCHANGED <<current_cert, download_times>>

\* (mutant) registerLastWait() is called for every fetch in both modes
parseWrapper_sample_all(cert_parse, cert_number) ==
    /\ logDownloadState(cert_parse, cert_number)
    /\ download_times' = download_times + 1
    /\ IF (cert_number % MaxWorkers = 0) \/ ~threaded
       THEN /\ current_cert' = cert_number
            /\ download_progress' = download_progress + 1
       ELSE UNCHANGED <<current_cert, download_progress>>

\* parseWrapper after parse returned cert_parse, lines 200-207
parseWrapper(cert_parse, cert_number) ==
    /\ logDownloadState(cert_parse, cert_number)
    /\ IF (cert_number % MaxWorkers = 0) \/ ~threaded
       THEN /\ current_cert' = cert_number
            /\ download_times' = download_times + 1
            /\ download_progress' = download_progress + 1
       ELSE UNCHANGED <<current_cert, download_times, download_progress>>

\* ------------------------------------------------------------- the executor
NoFuture == [st |-> "none", result |-> NotSet]
Active == {c \in DOMAIN futures : futures[c].st \in {"pending", "running"}}
Pending == {c \in DOMAIN futures : futures[c].st = "pending"}
Running == {c \in DOMAIN futures : futures[c].st = "running"}

\* (mutant) cancel() also takes back a future that a worker is running
Cancel_running(f) ==
    IF f.st \in {"pending", "running"} THEN [f EXCEPT !.st = "cancelled"] ELSE f

\* Future.cancel(): only a pending future is cancelled
Cancel(f) == IF f.st = "pending" THEN [f EXCEPT !.st = "cancelled"] ELSE f

\* A worker takes the oldest queued work item and runs it (at most
\* _max_workers at a time).
WorkerStart(c) ==
    /\ futures[c].st = "pending"
    /\ \A d \in Pending : c <= d
    /\ Cardinality(Running) < MaxWorkers
    /\ futures' = [futures EXCEPT ![c].st = "running"]
    /\ UNCHANGED <<taskvars, sigvars, mvars, uvars, fsvars, histvars, pvars, kvars>>

\* The worker's parseWrapper(c) returns or raises.
WorkerFinish(c) ==
    /\ futures[c].st = "running"
    /\ \E resp \in FetchScripts :
         LET r == parse(c, resp).ret IN
         /\ returned' = [returned EXCEPT ![c] = r]
         /\ futures' = [futures EXCEPT ![c] = [st |-> "finished", result |-> r]]
         /\ IF r = Raised
            THEN UNCHANGED <<download_log, download_statuses, current_cert,
                             download_times, download_progress>>
            ELSE parseWrapper(r, c)
    /\ UNCHANGED <<batch, threaded, state, download_items, cancel_event, cert_data,
                   output_file, file_size, md5, sha1, state_change, saving_error,
                   mvars, uvars, fsvars, dispatched, stop_early, stop_fetched, saves, pvars, kvars>>

\* ------------------------------------------- the download thread: start()
\* (mutant) the record is stored as fetched, 'number' included
Stripped_keep_number(new_cert) == new_cert

\* cert_data[cert_no] = new_cert after "if new_cert: new_cert.pop('number')"
Stripped(new_cert) == IF Truthy(new_cert) THEN Pop(new_cert, "number") ELSE new_cert

\* asyncStart, lines 159-161: the thread exists, start() has not run yet
asyncStart ==
    /\ mpc = "unspawned"
    /\ upc = "idle"
    /\ mpc' = "s165"
    /\ UNCHANGED <<taskvars, sigvars, futures, cert, cert_no, local_cert_data,
                   uvars, fsvars, histvars, pvars, kvars>>

\* (mutant) the loop of line 171 starts at ID 0 for every batch
start_165_from_zero ==
    /\ mpc = "s165"
    /\ SetState("STARTED")
    /\ local_cert_data' = Dict(<<>>)
    /\ cert' = 0
    /\ mpc' = "s171"
    /\ UNCHANGED <<batch, threaded, download_log, download_statuses, download_times,
                   download_items, current_cert, cancel_event, cert_data, output_file,
                   file_size, md5, sha1, download_progress, saving_error, futures,
                   cert_no, uvars, fsvars, histvars, pvars, kvars>>

\* lines 165-169
start_165 ==
    /\ mpc = "s165"
    /\ SetState("STARTED")
    /\ local_cert_data' = Dict(<<>>)
    /\ cert' = range_start
    /\ mpc' = "s171"
    /\ UNCHANGED <<batch, threaded, download_log, download_statuses, download_times,
                   download_items, current_cert, cancel_event, cert_data, output_file,
                   file_size, md5, sha1, download_progress, saving_error, futures,
                   cert_no, uvars, fsvars, histvars, pvars, kvars>>

\* lines 171-173, 179 in threaded mode: submit parseWrapper(cert), keep the
\* future (no other thread reads _download_items between the two lines
\* except the iterator of stop(), for which both orders are covered)
start_173 ==
    /\ mpc = "s171"
    /\ cert < range_end
    /\ threaded
    /\ futures' = [futures EXCEPT ![cert] = [st |-> "pending", result |-> NotSet]]
    /\ download_items' = Put(download_items, cert, FutureOf(cert))
    /\ dispatched' = dispatched \cup {cert}
    /\ cert' = cert + 1
    /\ UNCHANGED <<batch, threaded, state, download_log, download_statuses,
                   download_times, current_cert, cancel_event, cert_data, output_file,
                   file_size, md5, sha1, sigvars, mpc, cert_no, local_cert_data,
                   uvars, fsvars, returned, stop_early, stop_fetched, saves, pvars, kvars>>

\* (mutant) "break" instead of "return" when the flag is set
start_175_break ==
    /\ mpc = "s171"
    /\ cert < range_end
    /\ ~threaded
    /\ mpc' = IF cancel_event THEN "s181" ELSE "s177"
    /\ UNCHANGED <<taskvars, sigvars, futures, cert, cert_no, local_cert_data,
                   uvars, fsvars, histvars, pvars, kvars>>

\* (mutant) the flag is not read before the dispatch
start_175_unchecked ==
    /\ mpc = "s171"
    /\ cert < range_end
    /\ ~threaded
    /\ mpc' = "s177"
    /\ UNCHANGED <<taskvars, sigvars, futures, cert, cert_no, local_cert_data,
                   uvars, fsvars, histvars, pvars, kvars>>

\* lines 171, 175-176 in sequential mode: read the cancellation flag
start_175 ==
    /\ mpc = "s171"
    /\ cert < range_end
    /\ ~threaded
    /\ mpc' = IF cancel_event THEN "exit_return" ELSE "s177"
    /\ UNCHANGED <<taskvars, sigvars, futures, cert, cert_no, local_cert_data,
                   uvars, fsvars, histvars, pvars, kvars>>

\* line 177: call parseWrapper(cert); the fetch is in flight
start_177 ==
    /\ mpc = "s177"
    /\ dispatched' = dispatched \cup {cert}
    /\ mpc' = "s199"
    /\ UNCHANGED <<taskvars, sigvars, futures, cert, cert_no, local_cert_data,
                   uvars, fsvars, returned, stop_early, stop_fetched, saves, pvars, kvars>>

\* lines 199-207, 179 in sequential mode: parse returns or raises
start_199 ==
    /\ mpc = "s199"
    /\ \E resp \in FetchScripts :
         LET r == parse(cert, resp).ret IN
         /\ returned' = [returned EXCEPT ![cert] = r]
         /\ IF r = Raised
            THEN /\ mpc' = "exit_raise"
                 /\ UNCHANGED <<download_log, download_statuses, current_cert,
                                download_times, download_progress, download_items, cert>>
            ELSE /\ parseWrapper(r, cert)
                 /\ download_items' = Put(download_items, cert, r)
                 /\ cert' = cert + 1
                 /\ mpc' = "s171"
    /\ UNCHANGED <<batch, threaded, state, cancel_event, cert_data, output_file,
                   file_size, md5, sha1, state_change, saving_error, futures, cert_no,
                   local_cert_data, uvars, fsvars, dispatched, stop_early, stop_fetched, saves, pvars, kvars>>

\* line 171: the range is exhausted; line 181 starts
start_171_end ==
    /\ mpc = "s171"
    /\ cert = range_end
    /\ cert_no' = range_start
    /\ mpc' = "s181"
    /\ UNCHANGED <<taskvars, sigvars, futures, cert, local_cert_data,
                   uvars, fsvars, histvars, pvars, kvars>>

\* the item of _download_items that the loop of line 181 is at: cert_no is
\* the key of the item at position cert_no - range_start + 1
ItemAt(c) == download_items.items[c - range_start + 1]
\* the loop of line 181 has an item left / is exhausted
HasItem(c) == (c - range_start + 1) \in DOMAIN download_items.items

\* (mutant) results are taken in the order of completion (the order of
\* _download_log), not from the future stored under the key
start_183_completion_order ==
    /\ mpc = "s181"
    /\ HasItem(cert_no)
    /\ threaded
    /\ futures[ItemAt(cert_no)[2].cert].st \in {"cancelled", "finished"}
    /\ IF futures[ItemAt(cert_no)[2].cert].st = "cancelled"
       THEN /\ mpc' = "exit_return"
            /\ UNCHANGED <<futures, local_cert_data, cert_no>>
       ELSE IF futures[ItemAt(cert_no)[2].cert].result = Raised
       THEN /\ mpc' = "exit_raise"
            /\ UNCHANGED <<futures, local_cert_data, cert_no>>
       ELSE /\ local_cert_data' =
                   Put(local_cert_data, ItemAt(cert_no)[1],
                       Stripped(futures[download_log[Len(local_cert_data.items) + 1][1]].result))
            /\ UNCHANGED futures
            /\ cert_no' = cert_no + 1
            /\ UNCHANGED mpc
    /\ UNCHANGED <<taskvars, sigvars, cert, uvars, fsvars, histvars, pvars, kvars>>

\* (mutant) the result map is filled as the fetches completed: the n-th
\* entry is the n-th fetch of _download_log
start_183_as_completed ==
    /\ mpc = "s181"
    /\ HasItem(cert_no)
    /\ threaded
    /\ futures[ItemAt(cert_no)[2].cert].st \in {"cancelled", "finished"}
    /\ IF futures[ItemAt(cert_no)[2].cert].st = "cancelled"
       THEN /\ mpc' = "exit_return"
            /\ UNCHANGED <<futures, local_cert_data, cert_no>>
       ELSE IF futures[ItemAt(cert_no)[2].cert].result = Raised
       THEN /\ mpc' = "exit_raise"
            /\ UNCHANGED <<futures, local_cert_data, cert_no>>
       ELSE /\ local_cert_data' =
                   Put(local_cert_data, download_log[Len(local_cert_data.items) + 1][1],
                       Stripped(futures[download_log[Len(local_cert_data.items) + 1][1]].result))
            /\ futures' = [futures EXCEPT
                              ![download_log[Len(local_cert_data.items) + 1][1]].result =
                                  Stripped(@)]
            /\ cert_no' = cert_no + 1
            /\ UNCHANGED mpc
    /\ UNCHANGED <<taskvars, sigvars, cert, uvars, fsvars, histvars, pvars, kvars>>

\* lines 181-190 in threaded mode, for the next item <<cert_no, new_cert>>:
\* return if the future is cancelled, else wait for its result (which
\* re-raises what parseWrapper raised, or CancelledError)
start_183 ==
    /\ mpc = "s181"
    /\ HasItem(cert_no)
    /\ threaded
    /\ futures[ItemAt(cert_no)[2].cert].st \in {"cancelled", "finished"}
    /\ IF futures[ItemAt(cert_no)[2].cert].st = "cancelled"
       THEN /\ mpc' = "exit_return"
            /\ UNCHANGED <<futures, local_cert_data, cert_no>>
       ELSE IF futures[ItemAt(cert_no)[2].cert].result = Raised
       THEN /\ mpc' = "exit_raise"
            /\ UNCHANGED <<futures, local_cert_data, cert_no>>
       ELSE /\ local_cert_data' =
                   Put(local_cert_data, ItemAt(cert_no)[1],
                       Stripped(futures[ItemAt(cert_no)[2].cert].result))
            /\ futures' = [futures EXCEPT ![ItemAt(cert_no)[2].cert].result = Stripped(@)]
            /\ cert_no' = cert_no + 1
            /\ UNCHANGED mpc
    /\ UNCHANGED <<taskvars, sigvars, cert, uvars, fsvars, histvars, pvars, kvars>>

\* lines 181, 187-190 in sequential mode
start_187 ==
    /\ mpc = "s181"
    /\ HasItem(cert_no)
    /\ ~threaded
    /\ local_cert_data' =
           Put(local_cert_data, ItemAt(cert_no)[1], Stripped(ItemAt(cert_no)[2]))
    /\ download_items' = Put(download_items, ItemAt(cert_no)[1], Stripped(ItemAt(cert_no)[2]))
    /\ cert_no' = cert_no + 1
    /\ UNCHANGED <<batch, threaded, state, download_log, download_statuses,
                   download_times, current_cert, cancel_event, cert_data, output_file,
                   file_size, md5, sha1, sigvars, futures, mpc, cert,
                   uvars, fsvars, histvars, pvars, kvars>>

\* line 168, leaving the with block normally: shutdown(wait=True)
start_exit ==
    /\ mpc = "s181"
    /\ ~HasItem(cert_no)
    /\ Active = {}
    /\ mpc' = "s192"
    /\ UNCHANGED <<taskvars, sigvars, futures, cert, cert_no, local_cert_data,
                   uvars, fsvars, histvars, pvars, kvars>>

\* line 168, leaving the with block by return or by an exception: the
\* executor still runs every queued future that was not cancelled
start_abort ==
    /\ mpc \in {"exit_return", "exit_raise"}
    /\ Active = {}
    /\ mpc' = IF mpc = "exit_return" THEN "returned" ELSE "raised"
    /\ UNCHANGED <<taskvars, sigvars, futures, cert, cert_no, local_cert_data,
                   uvars, fsvars, histvars, pvars, kvars>>

\* lines 192-196
start_192 ==
    /\ mpc = "s192"
    /\ cert_data' = local_cert_data
    /\ SetState("COMPLETED")
    /\ mpc' = "s210"
    /\ UNCHANGED <<batch, threaded, download_log, download_statuses, download_times,
                   download_items, current_cert, cancel_event, output_file,
                   file_size, md5, sha1, download_progress, saving_error, futures,
                   cert, cert_no, local_cert_data, uvars, fsvars, histvars, pvars, kvars>>

\* ---------------------------------------------------------------- saveFile
\* Path(self._folder) / self.formatName()
ThePath == [kind |-> "path", batch_number |-> batch]

\* json.dump(self.cert_data, ...): keys become strings, None null, False false
Str(c) == <<"str", c>>
JsonValue(v) ==
    IF v = PyNone THEN [kind |-> "null"]
    ELSE IF v = PyFalse THEN [kind |-> "false"]
    ELSE [kind |-> "object", items |-> v.items]
JsonDump(data) ==
    [kind |-> "json",
     body |-> [n \in DOMAIN data.items |->
                 <<Str(data.items[n][1]), JsonValue(data.items[n][2])>>]]

\* calculateHash(algorithm), calculateSize(): digest and size of the bytes read back
calculateHash(algorithm, content) == [alg |-> algorithm, of |-> content]
calculateSize(content) == [size_of |-> content]

\* (mutant) the folder is tested before the file name is formatted
saveFile_error_folder_first(overwrite) ==
    IF ~folder_exists THEN "FOLDER_NOT_EXISTS"
    ELSE IF ~name_valid THEN "INVALID_NAME"
    ELSE IF file # NoFile /\ ~overwrite THEN "FILE_EXISTS"
    ELSE "ok"

\* (mutant) the test of line 220 is "and overwrite"
saveFile_error_inverted(overwrite) ==
    IF ~name_valid THEN "INVALID_NAME"
    ELSE IF ~folder_exists THEN "FOLDER_NOT_EXISTS"
    ELSE IF file # NoFile /\ overwrite THEN "FILE_EXISTS"
    ELSE "ok"

\* lines 210-222: which error, if any, ends the call
saveFile_error(overwrite) ==
    IF ~name_valid THEN "INVALID_NAME"
    ELSE IF ~folder_exists THEN "FOLDER_NOT_EXISTS"
    ELSE IF file # NoFile /\ ~overwrite THEN "FILE_EXISTS"
    ELSE "ok"

\* (mutant) a call that meets a bad template and a missing folder reports
\* both
saveFile_210_both(overwrite) ==
    /\ saves' = saves + 1
    /\ output_file' = IF saveFile_error(overwrite) = "INVALID_NAME"
                      THEN output_file ELSE ThePath
    /\ saving_error' = IF saveFile_error(overwrite) = "ok"
                       THEN saving_error
                       ELSE IF ~name_valid /\ ~folder_exists
                       THEN saving_error \o <<"INVALID_NAME", "FOLDER_NOT_EXISTS">>
                       ELSE Append(saving_error, saveFile_error(overwrite))
    /\ ask_overwrite' = (ask_overwrite \/ saveFile_error(overwrite) = "FILE_EXISTS")

\* lines 210-222: path resolved, error emitted; the controller's saveError
\* slot asks about overwriting on FILE_EXISTS (qt_kangaroo.py:132-135)
saveFile_210(overwrite) ==
    /\ saves' = saves + 1
    /\ output_file' = IF saveFile_error(overwrite) = "INVALID_NAME"
                      THEN output_file ELSE ThePath
    /\ saving_error' = IF saveFile_error(overwrite) = "ok"
                       THEN saving_error
                       ELSE Append(saving_error, saveFile_error(overwrite))
    /\ ask_overwrite' = (ask_overwrite \/ saveFile_error(overwrite) = "FILE_EXISTS")

\* lines 224-231: write, read back for size and digests, state = SAVED
\* (one step where this task is the only writer of the path; save_224 to
\* save_231 below take the statements one by one)
saveFile_224 ==
    /\ file' = JsonDump(cert_data)
    /\ file_size' = calculateSize(JsonDump(cert_data))
    /\ md5' = calculateHash("md5", JsonDump(cert_data))
    /\ sha1' = calculateHash("sha1", JsonDump(cert_data))
    /\ SetState("SAVED")

\* saveFile() called by start(), line 196
start_saveFile_210 ==
    /\ mpc = "s210"
    /\ saveFile_210(FALSE)
    /\ mpc' = IF saveFile_error(FALSE) = "ok" THEN "s224" ELSE "done"
    /\ UNCHANGED <<batch, threaded, state, download_log, download_statuses,
                   download_times, download_items, current_cert, cancel_event,
                   cert_data, file_size, md5, sha1, state_change, download_progress,
                   futures, cert, cert_no, local_cert_data, upc, it_pos, it_size,
                   stops, fsvars, dispatched, returned, stop_early, stop_fetched, pvars, kvars>>

start_saveFile_224 ==
    /\ mpc = "s224"
    /\ saveFile_224
    /\ mpc' = "done"
    /\ UNCHANGED <<batch, threaded, download_log, download_statuses, download_times,
                   download_items, current_cert, cancel_event, cert_data, output_file,
                   download_progress, saving_error, futures, cert, cert_no,
                   local_cert_data, uvars, name_valid, folder_exists, histvars, pvars, kvars>>

\* the properties file_name, file_size, md5, sha1, lines 402-420: the field
\* when the state is SAVED, else None; reading a field that was never
\* assigned raises AttributeError
Attr(v) == IF v = NotSet THEN Raised ELSE v
prop_file_name ==
    IF state = "SAVED"
    THEN IF output_file = NotSet THEN Raised ELSE [kind |-> "name", of |-> output_file]
    ELSE PyNone
prop_file_size == IF state = "SAVED" THEN Attr(file_size) ELSE PyNone
prop_md5 == IF state = "SAVED" THEN Attr(md5) ELSE PyNone
prop_sha1 == IF state = "SAVED" THEN Attr(sha1) ELSE PyNone

\* (mutant) the offset is taken from 0, not from the start of the range
relative_cert_absolute == current_cert

\* relative_cert, lines 303-305
relative_cert == current_cert - range_start

\* round(num / den) as Python rounds a quotient: to the nearest integer,
\* a tie to the even one (line 272)
round(num, den) ==
    LET q == num \div den
        r == num % den
    IN  IF 2 * r < den THEN q
        ELSE IF 2 * r > den THEN q + 1
        ELSE IF q % 2 = 0 THEN q ELSE q + 1

\* str(datetime.timedelta(seconds=n)), line 274: the normalised fields the
\* text is written from ("[D day[s], ]H:MM:SS", D negative for n < 0)
timedelta_str(n) ==
    LET rest == n % 86400
    IN  [kind |-> "timedelta",
         days |-> n \div 86400,
         hours |-> rest \div 3600,
         minutes |-> (rest % 3600) \div 60,
         seconds |-> rest % 60]

\* progress, lines 307-314
progress ==
    LET percent == round(relative_cert * 100, BatchSize)
    IN  IF percent = 100 THEN 99 ELSE percent

\* the last n elements of a list, list[-n:] with 1 <= n <= len(list)
LastN(list, n) == SubSeq(list, Len(list) - n + 1, Len(list))
Sum(list) ==
    LET RECURSIVE S(_)
        S(i) == IF i = 0 THEN 0 ELSE list[i] + S(i - 1)
    IN  S(Len(list))

\* eta, lines 260-275, for the samples times held by _download_times;
\* average * remaining_packets is kept as the quotient of two integers
eta(times) ==
    IF state # "STOPPED" /\ Len(times) >= 1
    THEN IF current_cert = NoCert THEN Raised
         ELSE LET to_average == IF Len(times) < 4 THEN Len(times) ELSE 4
                  total == Sum(LastN(times, to_average))
                  remaining_packets == BatchSize - relative_cert
                  workers == IF threaded THEN MaxWorkers ELSE 1
              IN  timedelta_str(round(total * remaining_packets,
                                      to_average * workers))
    ELSE PyNone

\* ---------------------------------------------- the caller's thread: stop()
\* line 234: "if self.running and not self.cancelled"
stop_234 ==
    /\ upc = "idle"
    /\ mpc # "unspawned"
    /\ stops < MaxStops
    /\ stops' = stops + 1
    /\ upc' = IF running /\ ~cancelled THEN "s236" ELSE "idle"
    /\ UNCHANGED <<taskvars, sigvars, futures, mvars, it_pos, it_size, ask_overwrite,
                   fsvars, histvars, pvars, kvars>>

\* line 236, and the iterator of line 239 or the branch to line 242
stop_236 ==
    /\ upc = "s236"
    /\ SetState("STOPPED")
    /\ stop_early' = (stop_early \/ (state = "STARTED" /\ Cardinality(dispatched) < BatchSize))
    /\ stop_fetched' = IF threaded THEN stop_fetched ELSE Append(stop_fetched, fetched_certs)
    /\ it_pos' = 0
    /\ it_size' = IF threaded THEN Len(download_items.items) ELSE 0
    /\ upc' = IF threaded THEN "s239" ELSE "s242"
    /\ UNCHANGED <<batch, threaded, download_log, download_statuses, download_times,
                   download_items, current_cert, cancel_event, cert_data, output_file,
                   file_size, md5, sha1, download_progress, saving_error, futures,
                   mvars, stops, ask_overwrite, fsvars, dispatched, returned, saves,
                   pvars, kvars>>

\* lines 239-240: one turn of the loop over _download_items.values().  The
\* dict iterator raises RuntimeError when start() has inserted since it was
\* created; that ends stop().
stop_239 ==
    /\ upc = "s239"
    /\ IF Len(download_items.items) # it_size \/ it_pos = it_size
       THEN /\ upc' = "idle"
            /\ it_pos' = 0
            /\ it_size' = 0
            /\ UNCHANGED futures
       ELSE /\ futures' =
                   [futures EXCEPT ![download_items.items[it_pos + 1][2].cert] = Cancel(@)]
            /\ it_pos' = it_pos + 1
            /\ UNCHANGED <<upc, it_size>>
    /\ UNCHANGED <<taskvars, sigvars, mvars, stops, ask_overwrite,
                   fsvars, histvars, pvars, kvars>>

\* line 242
stop_242 ==
    /\ upc = "s242"
    /\ cancel_event' = TRUE
    /\ upc' = "idle"
    /\ UNCHANGED <<batch, threaded, state, download_log, download_statuses,
                   download_times, download_items, current_cert, cert_data,
                   output_file, file_size, md5, sha1, sigvars, futures, mvars,
                   it_pos, it_size, stops, ask_overwrite, fsvars, histvars, pvars, kvars>>

\* ------------------- the caller's thread: saveError -> saveFile(True)
\* qt_kangaroo.py:132-135: the user answers the overwrite question
saveError_no ==
    /\ upc = "idle"
    /\ ask_overwrite
    /\ ask_overwrite' = FALSE
    /\ UNCHANGED <<taskvars, sigvars, futures, mvars, upc, it_pos, it_size, stops,
                   fsvars, histvars, pvars, kvars>>

saveError_yes ==
    /\ upc = "idle"
    /\ ask_overwrite
    /\ ask_overwrite' = FALSE
    /\ upc' = "u210"
    /\ UNCHANGED <<taskvars, sigvars, futures, mvars, it_pos, it_size, stops,
                   fsvars, histvars, pvars, kvars>>

caller_saveFile_210 ==
    /\ upc = "u210"
    /\ saveFile_210(TRUE)
    /\ upc' = IF saveFile_error(TRUE) = "ok" THEN "u224" ELSE "idle"
    /\ UNCHANGED <<batch, threaded, state, download_log, download_statuses,
                   download_times, download_items, current_cert, cancel_event,
                   cert_data, file_size, md5, sha1, state_change, download_progress,
                   futures, mvars, it_pos, it_size, stops, fsvars, dispatched,
                   returned, stop_early, stop_fetched, pvars, kvars>>

caller_saveFile_224 ==
    /\ upc = "u224"
    /\ saveFile_224
    /\ upc' = "idle"
    /\ UNCHANGED <<batch, threaded, download_log, download_statuses, download_times,
                   download_items, current_cert, cancel_event, cert_data, output_file,
                   download_progress, saving_error, futures, mvars, it_pos, it_size,
                   stops, ask_overwrite, name_valid, folder_exists, histvars, pvars, kvars>>

\* ----------------------------------------------------------- KangarooModel
\* the class attribute _download_items, line 431; no call was made yet
KangarooModelInit ==
    /\ model_download_items = <<>>
    /\ create = NotSet

\* download_count, lines 496-498
download_count == Len(model_download_items)

\* a list without its element at position i
RemoveAt(list, i) == SubSeq(list, 1, i - 1) \o SubSeq(list, i + 1, Len(list))

\* lines 457-460: the tasks of the list with this batch that are running
Preexistent(batch_number) ==
    {i \in DOMAIN model_download_items :
        /\ model_download_items[i].batch = batch_number
        /\ model_download_items[i].running}

\* createDownload, lines 452-471
createDownload(batch_number, is_threaded) ==
    /\ download_count < MaxTasks
    /\ IF download_count < max_downloads
       THEN /\ create' = "MAX_REACHED"
            /\ UNCHANGED model_download_items
       ELSE IF Preexistent(batch_number) # {}
       THEN /\ create' = "DOWNLOAD_EXISTS"
            /\ UNCHANGED model_download_items
       ELSE /\ model_download_items' =
                   Append(model_download_items,
                          [batch |-> batch_number, threaded |-> is_threaded,
                           running |-> TRUE, started |-> FALSE])
            /\ create' = "DownloadTask"
    /\ UNCHANGED <<taskvars, sigvars, futures, mvars, uvars, fsvars, histvars, pvars>>

\* deleteTask, lines 493-494, for the task at position i
deleteTask(i) ==
    /\ i \in DOMAIN model_download_items
    /\ model_download_items' = RemoveAt(model_download_items, i)
    /\ UNCHANGED <<taskvars, sigvars, futures, mvars, uvars, fsvars, histvars, pvars,
                   create>>

\* the download thread of the task at position i runs line 165 of start():
\* STARTED is assigned whatever the state was, so running, lines 341-345,
\* is True again for a task that stop() had stopped while it was CREATED
task_starts(i) ==
    /\ i \in DOMAIN model_download_items
    /\ ~model_download_items[i].started
    /\ model_download_items' =
           [model_download_items EXCEPT ![i].started = TRUE, ![i].running = TRUE]
    /\ UNCHANGED <<taskvars, sigvars, futures, mvars, uvars, fsvars, histvars, pvars,
                   create>>

\* the task at position i leaves the running states (stop() assigns
\* STOPPED, line 236, or start() assigns COMPLETED, line 194): running,
\* lines 341-345, is False
task_ends(i) ==
    /\ i \in DOMAIN model_download_items
    /\ model_download_items[i].running
    /\ model_download_items' = [model_download_items EXCEPT ![i].running = FALSE]
    /\ UNCHANGED <<taskvars, sigvars, futures, mvars, uvars, fsvars, histvars, pvars,
                   create>>

\* ------------------------------------------------------- the specification
\* DownloadTask.__init__, lines 98-124, for batch number b and mode t
TaskInit(b, t) ==
    /\ batch = b
    /\ threaded = t
    /\ state = "CREATED"
    /\ state_change = <<[new |-> "CREATED", stored |-> "DEFAULT"]>>
    /\ download_log = <<>>
    /\ download_statuses = <<>>
    /\ download_times = 0
    /\ download_items = Dict(<<>>)
    /\ current_cert = NoCert
    /\ cancel_event = FALSE
    /\ cert_data = NotSet
    /\ output_file = NotSet
    /\ file_size = NotSet
    /\ md5 = NotSet
    /\ sha1 = NotSet
    /\ download_progress = 0
    /\ saving_error = <<>>
    /\ futures = [c \in (BatchSize * (b - 1)) .. (BatchSize * b - 1) |-> NoFuture]
    /\ mpc = "unspawned"
    /\ cert = BatchSize * (b - 1)
    /\ cert_no = BatchSize * (b - 1)
    /\ local_cert_data = Dict(<<>>)
    /\ upc = "idle"
    /\ it_pos = 0
    /\ it_size = 0
    /\ stops = 0
    /\ ask_overwrite = FALSE
    /\ dispatched = {}
    /\ returned = [c \in (BatchSize * (b - 1)) .. (BatchSize * b - 1) |-> NotSet]
    /\ stop_early = FALSE
    /\ stop_fetched = <<>>
    /\ saves = 0

\* A task of either mode and any batch number, configured with a valid
\* filename template and an existing folder; the output path is free or taken.
Init ==
    /\ \E b \in 1..MaxBatch, t \in BOOLEAN : TaskInit(b, t)
    /\ name_valid = TRUE
    /\ folder_exists = TRUE
    /\ file \in {NoFile, Foreign}
    /\ p_code = 0
    /\ p_resp = <<>>
    /\ p_out = NotSet
    /\ KangarooModelInit

Next ==
    \/ asyncStart
    \/ start_165
    \/ start_173
    \/ start_175
    \/ start_177
    \/ start_199
    \/ start_171_end
    \/ start_183
    \/ start_187
    \/ start_exit
    \/ start_abort
    \/ start_192
    \/ start_saveFile_210
    \/ start_saveFile_224
    \/ \E c \in Range : WorkerStart(c)
    \/ \E c \in Range : WorkerFinish(c)
    \/ stop_234
    \/ stop_236
    \/ stop_239
    \/ stop_242
    \/ saveError_no
    \/ saveError_yes
    \/ caller_saveFile_210
    \/ caller_saveFile_224

Spec == Init /\ [][Next]_vars

\* --------------------------------------------------- the same, scheduled
\* the positions of the IDs within a batch: ID range_start + k is at k
Offsets == 0 .. (BatchSize - 1)

\* the statements of start() and of the saveFile() it calls, line 196
DownloadThread ==
    \/ start_165
    \/ start_173
    \/ start_175
    \/ start_177
    \/ start_199
    \/ start_171_end
    \/ start_183
    \/ start_187
    \/ start_exit
    \/ start_abort
    \/ start_192
    \/ start_saveFile_210
    \/ start_saveFile_224

\* Threads that can take a step are given one: the thread of asyncStart()
\* starts and keeps running, an idle worker takes queued work, and a fetch
\* in flight comes back.  Nothing obliges the caller to call stop() or to
\* answer the overwrite question.
Fairness ==
    /\ WF_vars(asyncStart)
    /\ WF_vars(DownloadThread)
    /\ \A k \in Offsets : WF_vars(WorkerStart(range_start + k))
    /\ \A k \in Offsets : WF_vars(WorkerFinish(range_start + k))

SpecFair == Init /\ [][Next]_vars /\ Fairness

\* ------------- saveFile() statement by statement, with a second writer
\* In Spec nothing but this task touches the output path, and lines 224-231
\* are one step.  Here saveFile() is also called by the caller directly, with
\* either value of overwrite, and another DownloadTask may write the same
\* path, so every statement that touches the file is a step of its own.
\* A sequential task, under every configuration saveFile() distinguishes.

\* the threads that run saveFile(): start() at line 196, and the caller
SaveThreads == {"download", "caller"}
SavePc(t) == IF t = "download" THEN mpc ELSE upc
SaveGoto(t, loc) ==
    IF t = "download" THEN mpc' = loc /\ upc' = upc ELSE upc' = loc /\ mpc' = mpc
\* where the thread is once saveFile() has returned
SaveEnd(t) == IF t = "download" THEN "done" ELSE "idle"
\* the thread is about to enter saveFile()
SaveEntry(t) == IF t = "download" THEN mpc = "s210" ELSE upc \in {"u210", "u210f"}

\* (mutant) start() saves with overwrite=True
Overwrite_always(t) == t \in SaveThreads

\* the overwrite argument of the call: False by default (line 196)
Overwrite(t) == t = "caller" /\ upc = "u210"

\* what no statement of saveFile() assigns
savefixed ==
    <<batch, threaded, download_log, download_statuses, download_times, download_items,
      current_cert, cancel_event, cert_data, download_progress, futures, cert, cert_no,
      local_cert_data, it_pos, it_size, stops, name_valid, folder_exists, dispatched,
      returned, stop_early, stop_fetched, pvars, kvars>>

\* lines 210-222
save_210(t) ==
    /\ SaveEntry(t)
    /\ saveFile_210(Overwrite(t))
    /\ SaveGoto(t, IF saveFile_error(Overwrite(t)) = "ok" THEN "w224" ELSE SaveEnd(t))
    /\ UNCHANGED <<savefixed, state, state_change, file, file_size, md5, sha1>>

\* lines 224-225: open(..., 'w') and json.dump
save_224(t) ==
    /\ SavePc(t) = "w224"
    /\ file' = JsonDump(cert_data)
    /\ SaveGoto(t, "w227")
    /\ UNCHANGED <<savefixed, state, state_change, output_file, saving_error,
                   ask_overwrite, saves, file_size, md5, sha1>>

\* line 227: the size of what the path holds now
save_227(t) ==
    /\ SavePc(t) = "w227"
    /\ file_size' = calculateSize(file)
    /\ SaveGoto(t, "w228")
    /\ UNCHANGED <<savefixed, state, state_change, output_file, saving_error,
                   ask_overwrite, saves, file, md5, sha1>>

\* (mutant) the md5 digest is not captured
save_228_skip(t) ==
    /\ SavePc(t) = "w228"
    /\ SaveGoto(t, "w229")
    /\ UNCHANGED <<savefixed, state, state_change, output_file, saving_error,
                   ask_overwrite, saves, file, file_size, md5, sha1>>

\* line 228: the file is read again for the md5 digest
save_228(t) ==
    /\ SavePc(t) = "w228"
    /\ md5' = calculateHash("md5", file)
    /\ SaveGoto(t, "w229")
    /\ UNCHANGED <<savefixed, state, state_change, output_file, saving_error,
                   ask_overwrite, saves, file, file_size, sha1>>

\* line 229: and again for the sha1 digest
save_229(t) ==
    /\ SavePc(t) = "w229"
    /\ sha1' = calculateHash("sha1", file)
    /\ SaveGoto(t, "w231")
    /\ UNCHANGED <<savefixed, state, state_change, output_file, saving_error,
                   ask_overwrite, saves, file, file_size, md5>>

\* line 231
save_231(t) ==
    /\ SavePc(t) = "w231"
    /\ SetState("SAVED")
    /\ SaveGoto(t, SaveEnd(t))
    /\ UNCHANGED <<savefixed, output_file, saving_error, ask_overwrite, saves,
                   file, file_size, md5, sha1>>

\* the caller calls saveFile(overwrite) once start() has returned
call_saveFile ==
    /\ upc = "idle"
    /\ mpc = "done"
    /\ saves < MaxSaves
    /\ \E overwrite \in BOOLEAN : upc' = IF overwrite THEN "u210" ELSE "u210f"
    /\ UNCHANGED <<taskvars, sigvars, futures, mvars, it_pos, it_size, stops,
                   ask_overwrite, fsvars, histvars, pvars, kvars>>

\* Another DownloadTask whose file name resolves to the same path (the same
\* batch number, which createDownload allows once this task is not running,
\* or a template without {batch_number}) writes its own results, lines 224-225.
other_saveFile ==
    /\ name_valid
    /\ folder_exists
    /\ file # Foreign
    /\ file' = Foreign
    /\ UNCHANGED <<taskvars, sigvars, futures, mvars, uvars, name_valid, folder_exists,
                   histvars, pvars, kvars>>

\* a file can only be where the template resolves and the folder exists
InitSave ==
    /\ \E b \in 1..MaxBatch : TaskInit(b, FALSE)
    /\ name_valid \in BOOLEAN
    /\ folder_exists \in BOOLEAN
    /\ file \in {NoFile, Foreign}
    /\ file # NoFile => (name_valid /\ folder_exists)
    /\ p_code = 0
    /\ p_resp = <<>>
    /\ p_out = NotSet
    /\ KangarooModelInit

NextSave ==
    \/ asyncStart
    \/ start_165
    \/ start_175
    \/ start_177
    \/ start_199
    \/ start_171_end
    \/ start_187
    \/ start_exit
    \/ start_abort
    \/ start_192
    \/ \E t \in SaveThreads : save_210(t)
    \/ \E t \in SaveThreads : save_224(t)
    \/ \E t \in SaveThreads : save_227(t)
    \/ \E t \in SaveThreads : save_228(t)
    \/ \E t \in SaveThreads : save_229(t)
    \/ \E t \in SaveThreads : save_231(t)
    \/ stop_234
    \/ stop_236
    \/ stop_242
    \/ saveError_no
    \/ saveError_yes
    \/ call_saveFile
    \/ other_saveFile

SpecSave == InitSave /\ [][NextSave]_vars

\* ---------------------- one call of parse, for every script of responses
InitParse ==
    /\ TaskInit(1, FALSE)
    /\ name_valid = TRUE
    /\ folder_exists = TRUE
    /\ file = NoFile
    /\ p_code \in 0 .. (BatchSize - 1)
    /\ p_resp \in [1..retry_attempts -> Responses]
    /\ p_out = NotSet
    /\ KangarooModelInit

parse_call ==
    /\ p_out = NotSet
    /\ p_out' = parse(p_code, p_resp)
    /\ UNCHANGED <<taskvars, sigvars, futures, mvars, uvars, fsvars, histvars,
                   p_code, p_resp, kvars>>

NextParse == parse_call

SpecParse == InitParse /\ [][NextParse]_vars

\* ------------------------------------ KangarooModel and its list of tasks
InitModel ==
    /\ TaskInit(1, FALSE)
    /\ name_valid = TRUE
    /\ folder_exists = TRUE
    /\ file = NoFile
    /\ p_code = 0
    /\ p_resp = <<>>
    /\ p_out = NotSet
    /\ KangarooModelInit

NextModel ==
    \/ \E batch_number \in 1..MaxBatch, is_threaded \in BOOLEAN :
          createDownload(batch_number, is_threaded)
    \/ \E i \in 1..MaxTasks : deleteTask(i)
    \/ \E i \in 1..MaxTasks : task_starts(i)
    \/ \E i \in 1..MaxTasks : task_ends(i)

SpecModel == InitModel /\ [][NextModel]_vars

\* ------------------------------------- the state setter, line by line
\* line 338: state_change.emit(new_state), _state still what it was
state_338(new_state) ==
    state_change' = Append(state_change, [new |-> new_state, stored |-> state])

\* line 339: self._state = new_state
state_339(new_state) == state' = new_state

\* line 165, "self.state = DownloadState.STARTED": line 338 of the setter
start_165_338 ==
    /\ mpc = "s165"
    /\ state_338("STARTED")
    /\ mpc' = "s165_339"
    /\ UNCHANGED <<batch, threaded, state, download_log, download_statuses, download_times,
                   download_items, current_cert, cancel_event, cert_data, output_file,
                   file_size, md5, sha1, download_progress, saving_error, futures, cert,
                   cert_no, local_cert_data, upc, it_pos, it_size, stops, ask_overwrite,
                   name_valid, folder_exists, file, dispatched, returned, stop_early,
                   stop_fetched, saves, pvars, kvars>>

\* line 339 of that call, then line 166
start_165_339 ==
    /\ mpc = "s165_339"
    /\ state_339("STARTED")
    /\ local_cert_data' = Dict(<<>>)
    /\ cert' = range_start
    /\ mpc' = "s171"
    /\ UNCHANGED <<batch, threaded, download_log, download_statuses, download_times,
                   download_items, current_cert, cancel_event, cert_data, output_file,
                   file_size, md5, sha1, state_change, download_progress, saving_error,
                   futures, cert_no, upc, it_pos, it_size, stops, ask_overwrite,
                   name_valid, folder_exists, file, dispatched, returned, stop_early,
                   stop_fetched, saves, pvars, kvars>>

\* lines 192-194: cert_data is assigned, then line 338 of the setter
start_192_338 ==
    /\ mpc = "s192"
    /\ cert_data' = local_cert_data
    /\ state_338("COMPLETED")
    /\ mpc' = "s192_339"
    /\ UNCHANGED <<batch, threaded, state, download_log, download_statuses, download_times,
                   download_items, current_cert, cancel_event, output_file, file_size, md5,
                   sha1, download_progress, saving_error, futures, cert, cert_no,
                   local_cert_data, upc, it_pos, it_size, stops, ask_overwrite, name_valid,
                   folder_exists, file, dispatched, returned, stop_early, stop_fetched,
                   saves, pvars, kvars>>

start_192_339 ==
    /\ mpc = "s192_339"
    /\ state_339("COMPLETED")
    /\ mpc' = "s210"
    /\ UNCHANGED <<batch, threaded, download_log, download_statuses, download_times,
                   download_items, current_cert, cancel_event, cert_data, output_file,
                   file_size, md5, sha1, state_change, download_progress, saving_error,
                   futures, cert, cert_no, local_cert_data, upc, it_pos, it_size, stops,
                   ask_overwrite, name_valid, folder_exists, file, dispatched, returned,
                   stop_early, stop_fetched, saves, pvars, kvars>>

\* saveFile lines 224-231 up to line 338 of the setter
saveFile_224_338 ==
    /\ file' = JsonDump(cert_data)
    /\ file_size' = calculateSize(JsonDump(cert_data))
    /\ md5' = calculateHash("md5", JsonDump(cert_data))
    /\ sha1' = calculateHash("sha1", JsonDump(cert_data))
    /\ state_338("SAVED")

start_saveFile_224_338 ==
    /\ mpc = "s224"
    /\ saveFile_224_338
    /\ mpc' = "s224_339"
    /\ UNCHANGED <<batch, threaded, state, download_log, download_statuses, download_times,
                   download_items, current_cert, cancel_event, cert_data, output_file,
                   download_progress, saving_error, futures, cert, cert_no,
                   local_cert_data, upc, it_pos, it_size, stops, ask_overwrite, name_valid,
                   folder_exists, dispatched, returned, stop_early, stop_fetched, saves,
                   pvars, kvars>>

start_saveFile_224_339 ==
    /\ mpc = "s224_339"
    /\ state_339("SAVED")
    /\ mpc' = "done"
    /\ UNCHANGED <<batch, threaded, download_log, download_statuses, download_times,
                   download_items, current_cert, cancel_event, cert_data, output_file,
                   file_size, md5, sha1, state_change, download_progress, saving_error,
                   futures, cert, cert_no, local_cert_data, upc, it_pos, it_size, stops,
                   ask_overwrite, name_valid, folder_exists, file, dispatched, returned,
                   stop_early, stop_fetched, saves, pvars, kvars>>

caller_saveFile_224_338 ==
    /\ upc = "u224"
    /\ saveFile_224_338
    /\ upc' = "u224_339"
    /\ UNCHANGED <<batch, threaded, state, download_log, download_statuses, download_times,
                   download_items, current_cert, cancel_event, cert_data, output_file,
                   download_progress, saving_error, futures, mpc, cert, cert_no,
                   local_cert_data, it_pos, it_size, stops, ask_overwrite, name_valid,
                   folder_exists, dispatched, returned, stop_early, stop_fetched, saves,
                   pvars, kvars>>

caller_saveFile_224_339 ==
    /\ upc = "u224_339"
    /\ state_339("SAVED")
    /\ upc' = "idle"
    /\ UNCHANGED <<batch, threaded, download_log, download_statuses, download_times,
                   download_items, current_cert, cancel_event, cert_data, output_file,
                   file_size, md5, sha1, state_change, download_progress, saving_error,
                   futures, mpc, cert, cert_no, local_cert_data, it_pos, it_size, stops,
                   ask_overwrite, name_valid, folder_exists, file, dispatched, returned,
                   stop_early, stop_fetched, saves, pvars, kvars>>

\* stop() line 236: line 338 of the setter
stop_236_338 ==
    /\ upc = "s236"
    /\ state_338("STOPPED")
    /\ upc' = "s236_339"
    /\ UNCHANGED <<batch, threaded, state, download_log, download_statuses, download_times,
                   download_items, current_cert, cancel_event, cert_data, output_file,
                   file_size, md5, sha1, download_progress, saving_error, futures, mpc,
                   cert, cert_no, local_cert_data, it_pos, it_size, stops, ask_overwrite,
                   name_valid, folder_exists, file, dispatched, returned, stop_early,
                   stop_fetched, saves, pvars, kvars>>

\* line 339 of that call, and the iterator of line 239 or the branch to
\* line 242
stop_236_339 ==
    /\ upc = "s236_339"
    /\ state_339("STOPPED")
    /\ stop_early' = (stop_early \/ (state = "STARTED" /\ Cardinality(dispatched) < BatchSize))
    /\ stop_fetched' = IF threaded THEN stop_fetched ELSE Append(stop_fetched, fetched_certs)
    /\ it_pos' = 0
    /\ it_size' = IF threaded THEN Len(download_items.items) ELSE 0
    /\ upc' = IF threaded THEN "s239" ELSE "s242"
    /\ UNCHANGED <<batch, threaded, download_log, download_statuses, download_times,
                   download_items, current_cert, cancel_event, cert_data, output_file,
                   file_size, md5, sha1, state_change, download_progress, saving_error,
                   futures, mpc, cert, cert_no, local_cert_data, stops, ask_overwrite,
                   name_valid, folder_exists, file, dispatched, returned, saves, pvars, kvars>>

NextSetter ==
    \/ asyncStart
    \/ start_165_338
    \/ start_165_339
    \/ start_173
    \/ start_175
    \/ start_177
    \/ start_199
    \/ start_171_end
    \/ start_183
    \/ start_187
    \/ start_exit
    \/ start_abort
    \/ start_192_338
    \/ start_192_339
    \/ start_saveFile_210
    \/ start_saveFile_224_338
    \/ start_saveFile_224_339
    \/ \E c \in Range : WorkerStart(c)
    \/ \E c \in Range : WorkerFinish(c)
    \/ stop_234
    \/ stop_236_338
    \/ stop_236_339
    \/ stop_239
    \/ stop_242
    \/ saveError_no
    \/ saveError_yes
    \/ caller_saveFile_210
    \/ caller_saveFile_224_338
    \/ caller_saveFile_224_339

SpecSetter == Init /\ [][NextSetter]_vars

\* ================================================================ claims
Ended == mpc \in {"done", "returned", "raised"}
LifecycleEdges ==
    {<<"CREATED", "STARTED">>, <<"STARTED", "COMPLETED">>,
     <<"COMPLETED", "SAVED">>, <<"STARTED", "STOPPED">>}
\* stop() has assigned STOPPED at some earlier step
StopAssigned == \E n \in DOMAIN state_change : state_change[n].new = "STOPPED"

\* C1: every change of the lifecycle state follows one of the edges
\* Created->Started, Started->Completed, Completed->Saved, Started->Stopped.
C1_OnlyLifecycleEdges == [][state' # state => <<state, state'>> \in LifecycleEdges]_vars

\* C2: in sequential mode, once stop() has set STOPPED on a Started task while
\* fewer than batch_size fetches were dispatched, the state stays STOPPED and
\* the task ends with fewer than batch_size collected results.
C2_SequentialStopStaysStopped ==
    (~threaded /\ stop_early) =>
        /\ state = "STOPPED"
        /\ Ended => Len(download_items.items) < BatchSize

\* C3: once stop() has moved the task to Stopped, no step calls saveFile()
\* and no step writes the output file.
C3_NoSaveAfterStop == [][StopAssigned => (saves' = saves /\ file' = file)]_vars

\* C4: the step at which saveFile() sets SAVED replaces the state COMPLETED.
C4_SavedOnlyFromCompleted ==
    [][((mpc = "s224" /\ mpc' # mpc) \/ (upc = "u224" /\ upc' # upc))
          => (state = "COMPLETED" /\ state' = "SAVED")]_vars

\* C5: at the step where stop() assigns STOPPED, the state it replaces is
\* not Completed, Saved or Stopped.
C5_StopOnlyIfRunning ==
    [][(upc = "s236" /\ upc' # upc) => state \notin {"COMPLETED", "SAVED", "STOPPED"}]_vars

\* C6: whenever the state is Completed or Saved, cert_data has exactly
\* batch_size entries, one for every ID of the range and no other.
C6_ResultMapComplete ==
    state \in {"COMPLETED", "SAVED"} =>
        /\ cert_data # NotSet
        /\ Len(cert_data.items) = BatchSize
        /\ Keys(cert_data) = Range

C6_Witness ==
    /\ state = "COMPLETED"
    /\ threaded
    /\ stops = 1
    /\ Keys(cert_data) = Range

\* C7: in every state successful_certs + failed_certs + not_found_certs
\* equals fetched_certs, and fetched_certs is at most batch_size.
C7_CountersAddUp ==
    /\ successful_certs + failed_certs + not_found_certs = fetched_certs
    /\ fetched_certs <= BatchSize

C7_Witness ==
    /\ threaded
    /\ fetched_certs = BatchSize
    /\ successful_certs = 1
    /\ failed_certs = 1
    /\ not_found_certs = 1

\* what the result map must hold for a fetch that returned v: the record
\* without its "number" field, None for Absent, False for Failed
OutcomeOf(v) ==
    IF v.kind = "dict"
    THEN LET Field(kv) == kv[1] # "number" IN Dict(SelectSeq(v.items, Field))
    ELSE v

\* C8: in threaded mode, when the task is Completed (or Saved) the result
\* map holds under each ID of the range, once, the outcome that the fetch of
\* that ID returned.
C8_ResultsKeyedByOwnId ==
    (threaded /\ state \in {"COMPLETED", "SAVED"}) =>
        /\ Len(cert_data.items) = Cardinality(Keys(cert_data))
        /\ Keys(cert_data) = Range
        /\ \A c \in Range : Get(cert_data, c) = OutcomeOf(returned[c])

\* the workers finished in an order that is not the order of the IDs, with
\* three different outcomes
C8_Witness ==
    /\ threaded
    /\ state = "COMPLETED"
    /\ Len(download_log) = BatchSize
    /\ download_log[1][1] > download_log[2][1]
    /\ {download_log[n][2] : n \in DOMAIN download_log} =
           {"DOWNLOADED", "NOT_FOUND", "FAILED"}

\* the first browser.open call that does not raise ConnectionError, or 0
FirstAnswer(resp) ==
    IF \A n \in 1..4 : resp[n] = "conn"
    THEN 0
    ELSE CHOOSE n \in 1..4 :
             resp[n] # "conn" /\ \A m \in 1..(n - 1) : resp[m] = "conn"

\* C9: parse makes at most 4 attempts, stops at the first one that does not
\* raise a connection failure and classifies its response (a record, None
\* for absent, False for missing fields); it returns False for connectivity
\* reasons exactly when all 4 attempts raised a connection failure.
C9_RetryBudget ==
    p_out # NotSet =>
        LET a == FirstAnswer(p_resp) IN
        /\ p_out.opens <= 4
        /\ p_out.opens = IF a = 0 THEN 4 ELSE a
        /\ (a = 0) => p_out.ret = PyFalse
        /\ (a # 0 /\ p_resp[a] = "found") =>
               p_out.ret = Dict(<< <<"number", p_code>>, <<"certificado", p_code>> >>)
        /\ (a # 0 /\ p_resp[a] = "absent") => p_out.ret = PyNone
        /\ (a # 0 /\ p_resp[a] = "missing") => p_out.ret = PyFalse
        /\ (p_out.ret = PyFalse) => (a = 0 \/ p_resp[a] = "missing")

\* three connection failures, then the record is found at the 4th attempt
C9_Witness ==
    /\ p_out # NotSet
    /\ p_out.opens = 4
    /\ p_out.ret.kind = "dict"

\* C10: a task on which stop() is never called records an outcome for every
\* ID of its range and is Completed (or Saved) when start() has ended,
\* whatever each fetch did.
C10_FetchErrorsNeverAbort ==
    (stops = 0 /\ Ended) =>
        /\ state \in {"COMPLETED", "SAVED"}
        /\ \A c \in Range : \E n \in DOMAIN download_log : download_log[n][1] = c

\* the outcome log holds an entry / so many entries for ID c
Logged(c) == \E n \in DOMAIN download_log : download_log[n][1] = c
LogCount(c) == Cardinality({n \in DOMAIN download_log : download_log[n][1] = c})
\* some fetch raised instead of returning
SomeFetchRaised == \E c \in DOMAIN returned : returned[c] = Raised
\* the fetch of ID c has begun to execute
Executing(c) == IF threaded THEN futures[c].st \in {"running", "finished"} ELSE c \in dispatched

SaveCall(overwrite) ==
    /\ saves' = saves + 1
    /\ overwrite = (upc = "u210" /\ upc' # upc)
\* the step is such a call ending with saving_error.emit(reason): one
\* notification, the file and the state as they were, and the call returns
SaveFails(reason) ==
    /\ saving_error' = Append(saving_error, reason)
    /\ file' = file
    /\ state' = state
    /\ mpc' # mpc => mpc' = "done"
    /\ upc' # upc => upc' = "idle"

\* C12: a saveFile() call on a Completed task that meets an unknown
\* placeholder, a missing folder, or an existing path with overwrite false
\* emits one saving_error with INVALID_NAME, FOLDER_NOT_EXISTS or
\* FILE_EXISTS respectively, changes no file and leaves the state Completed.
C12_FailedSaveKeepsCompleted ==
    [][\A overwrite \in BOOLEAN :
          (SaveCall(overwrite) /\ state = "COMPLETED") =>
              /\ ~name_valid => SaveFails("INVALID_NAME")
              /\ (name_valid /\ ~folder_exists) => SaveFails("FOLDER_NOT_EXISTS")
              /\ (name_valid /\ folder_exists /\ file # NoFile /\ ~overwrite)
                     => SaveFails("FILE_EXISTS")]_vars

\* with a bad template and no folder: the automatic save and a later call
\* both reported the template, and the task is still Completed
C12_Witness ==
    /\ state = "COMPLETED"
    /\ ~name_valid
    /\ ~folder_exists
    /\ saving_error = <<"INVALID_NAME", "INVALID_NAME">>
    /\ file = NoFile

\* C13: every saveFile(overwrite=False) that finds its path existing
\* reports FILE_EXISTS and leaves the content of the file as it is.
C13_NoOverwriteKeepsFile ==
    [][(SaveCall(FALSE) /\ file # NoFile) => SaveFails("FILE_EXISTS")]_vars

\* the call was repeated on a file that is not this task's
C13_Witness ==
    /\ saving_error = <<"FILE_EXISTS", "FILE_EXISTS">>
    /\ file = Foreign
    /\ upc = "idle"

\* C14: start() calls saveFile() once, on entering Completed, with
\* overwrite false; after that every saveFile() call is the caller's; and a
\* caller's saveFile(True) with a valid template and an existing folder goes
\* on to write the result map and takes a Completed task to Saved.
C14_OneAutomaticSave ==
    [][/\ (mpc # "s210" /\ mpc' = "s210") => (saves = 0 /\ state' = "COMPLETED")
       /\ (mpc = "s210" /\ mpc' # mpc) =>
              /\ SaveCall(FALSE)
              /\ file # NoFile => SaveFails("FILE_EXISTS")
       /\ mpc = "done" => mpc' = "done"
       /\ (mpc = "done" /\ saves' # saves) => upc' # upc
       /\ (SaveCall(TRUE) /\ name_valid /\ folder_exists) => upc' = "w224"
       /\ (upc = "w224" /\ upc' # upc) => file' = JsonDump(cert_data)
       /\ (upc \in {"w224", "w227", "w228", "w229"} /\ state = "COMPLETED")
              => state' = "COMPLETED"
       /\ (upc = "w231" /\ upc' # upc /\ state = "COMPLETED") => state' = "SAVED"]_vars

\* the automatic save found the path taken and left the task Completed; a
\* later saveFile(True) has written the file and is about to set SAVED
C14_Witness ==
    /\ upc = "w231"
    /\ mpc = "done"
    /\ state = "COMPLETED"
    /\ saving_error = <<"FILE_EXISTS">>
    /\ saves = 2
    /\ file = JsonDump(cert_data)

\* the property returns a value (not None, and does not raise)
Defined(v) == v \notin {PyNone, NotSet, Raised}

\* C15: in every state each of file_name, file_size, md5 and sha1 is
\* defined if and only if the state is Saved.
C15_FileFieldsIffSaved ==
    /\ Defined(prop_file_name) <=> state = "SAVED"
    /\ Defined(prop_file_size) <=> state = "SAVED"
    /\ Defined(prop_md5) <=> state = "SAVED"
    /\ Defined(prop_sha1) <=> state = "SAVED"

\* after a failed automatic save, a later saveFile() has captured the md5
\* digest but not yet set SAVED
C15_Witness ==
    /\ state = "COMPLETED"
    /\ saving_error # <<>>
    /\ md5 # NotSet
    /\ ~Defined(prop_md5)

\* C16: whenever the task is Saved, its output file holds the serialization
\* of its result map, and the size and digests it captured are those of
\* that content.
C16_DigestsMatchFile ==
    state = "SAVED" =>
        /\ file = JsonDump(cert_data)
        /\ file_size = calculateSize(file)
        /\ md5 = calculateHash("md5", file)
        /\ sha1 = calculateHash("sha1", file)

\* C17: in every state, running is true only if the state is Started, and
\* cancelled is true if and only if the state is Stopped.
C17_RunningOnlyWhenStarted ==
    /\ running => state = "STARTED"
    /\ cancelled <=> state = "STOPPED"

\* C18: in threaded mode, once the state is Stopped the outcome log, the
\* counters and the result map do not change any more.
C18_NothingMergedAfterStopped ==
    [][(threaded /\ state = "STOPPED") =>
          /\ download_log' = download_log
          /\ download_statuses' = download_statuses
          /\ cert_data' = cert_data]_vars

\* stop() has run to its end and did assign STOPPED
StopReturned == StopAssigned /\ upc = "idle"

\* C19: in threaded mode, after stop() has returned no worker begins to
\* execute a fetch.
C19_NoFetchStartsAfterStop ==
    [][(threaded /\ StopReturned) =>
          \A c \in Range : ~(futures[c].st # "running" /\ futures'[c].st = "running")]_vars

\* C20: in sequential mode, at most one Outcome is recorded after the step
\* at which stop() assigned STOPPED.
C20_AtMostOneFetchAfterStop ==
    (~threaded /\ stop_fetched # <<>>) =>
        fetched_certs <= stop_fetched[Len(stop_fetched)] + 1

\* C21 (as claimed): in sequential mode, once the flag is set no further
\* fetch is dispatched.
C21_NoDispatchOnceFlagSet ==
    [][(~threaded /\ cancel_event) => dispatched' = dispatched]_vars

\* C21 (amended): in sequential mode the flag is read before each dispatch;
\* once it is set no read lets a dispatch through, so the only fetch still
\* dispatched is the one whose read had found the flag clear; a read that
\* finds it set leaves the loop by return; and no Outcome is ever recorded
\* for an ID that was not dispatched.
C21_FlagReadBeforeEachDispatch ==
    [][~threaded =>
          /\ dispatched' # dispatched => (mpc = "s177" /\ mpc' = "s199")
          /\ (mpc # "s177" /\ mpc' = "s177") => (mpc = "s171" /\ ~cancel_event)
          /\ (cancel_event /\ mpc = "s171" /\ cert < range_end /\ mpc' # mpc)
                 => mpc' = "exit_return"
          /\ \A c \in Range : LogCount(c)' > 0 => c \in dispatched']_vars

\* the flag was set during the fetch of the first ID; the loop then left
\* the other IDs alone
C21_Witness ==
    /\ ~threaded
    /\ cancel_event
    /\ mpc = "returned"
    /\ dispatched = {range_start}
    /\ fetched_certs = 1

\* a worker pool exists from line 168 until the with block is left
PoolExists == mpc \in {"s171", "s177", "s199", "s181", "exit_return", "exit_raise"}

\* C22: whenever the state is not Started, no fetch is executing and the
\* worker pool is torn down.
C22_NoFetchOutsideStarted ==
    state # "STARTED" =>
        /\ Running = {}
        /\ mpc # "s199"
        /\ ~PoolExists

\* the recorded Outcomes whose ID is a multiple of the worker count
LoggedMultiples ==
    Cardinality({n \in DOMAIN download_log : download_log[n][1] % MaxWorkers = 0})

\* C23 (as claimed): one download_progress notification per recorded Outcome
\* in sequential mode; floor(k / N) notifications after k Outcomes in
\* threaded mode with N workers.
C23_ProgressEveryNth ==
    /\ ~threaded => download_progress = fetched_certs
    /\ threaded => download_progress = fetched_certs \div MaxWorkers

\* C23 (amended): one notification per recorded Outcome in sequential mode;
\* in threaded mode one per recorded Outcome whose ID is a multiple of N.
C23_ProgressOnMultiplesOfN ==
    /\ ~threaded => download_progress = fetched_certs
    /\ threaded => download_progress = LoggedMultiples

\* a whole batch was fetched by the pool and the notifications are not
\* floor(batch_size / N)
C23_Witness ==
    /\ threaded
    /\ fetched_certs = BatchSize
    /\ download_progress # BatchSize \div MaxWorkers

SampleLists == [1..download_times -> 0..MaxSample]

\* C25: the ETA is undefined exactly when the state is STOPPED or no timing
\* sample exists; in every other state it is a non-negative duration,
\* whatever the (non-negative) samples are.
C25_EtaUndefinedIffStoppedOrNoSample ==
    \A times \in SampleLists :
        /\ eta(times) = PyNone <=> (state = "STOPPED" \/ download_times = 0)
        /\ eta(times) # PyNone =>
              /\ eta(times).kind = "timedelta"
              /\ eta(times).days >= 0

\* a parallel task of the second batch has samples, is not stopped and its
\* ETA is a positive duration
C25_Witness ==
    /\ threaded
    /\ batch = 2
    /\ state = "STARTED"
    /\ download_times >= 1
    /\ \E times \in SampleLists :
          /\ eta(times) # PyNone
          /\ eta(times).seconds > 0

\* the number of entries of the result map whose value satisfies Is
Entries(Is(_)) ==
    Cardinality({n \in DOMAIN cert_data.items : Is(cert_data.items[n][2])})
IsRecord(v) == v.kind = "dict"
IsAbsent(v) == v = PyNone
IsFailed(v) == v = PyFalse

\* C26: a sequential task that was not stopped and whose save succeeded is
\* SAVED, its result map has batch_size entries, and successful_certs,
\* not_found_certs and failed_certs are the numbers of entries that are a
\* record, None and False.
C26_SequentialTotals ==
    (~threaded /\ stops = 0 /\ md5 # NotSet) =>
        /\ state = "SAVED"
        /\ Len(cert_data.items) = BatchSize
        /\ successful_certs = Entries(IsRecord)
        /\ not_found_certs = Entries(IsAbsent)
        /\ failed_certs = Entries(IsFailed)

\* a sequential unstopped run saved a batch with one outcome of each kind
C26_Witness ==
    /\ ~threaded
    /\ stops = 0
    /\ md5 # NotSet
    /\ state = "SAVED"
    /\ successful_certs = 1
    /\ not_found_certs = 1
    /\ failed_certs = 1

\* no thread is between line 338 and line 339 of the setter
SetterIdle ==
    /\ mpc \notin {"s165_339", "s192_339", "s224_339"}
    /\ upc \notin {"s236_339", "u224_339"}

\* C27: the notified states are the states the task goes through, in the
\* same order: whenever no assignment is in progress, the state is the one
\* the last state_change notification carried.
C27_LastNotifiedIsTheState ==
    SetterIdle => state = state_change[Len(state_change)].new

\* C28: for the configured maximum _max_downloads, createDownload() refuses
\* with MAX_REACHED once that many tasks are registered, so the number of
\* registered tasks never exceeds it.
C28_NeverMoreThanMax == download_count <= max_downloads

\* a step of start() that dispatches the fetch of ID cert: executor.submit
\* in threaded mode (line 173), the call of parseWrapper in sequential mode
\* (line 177)
DispatchStep ==
    \/ threaded /\ mpc = "s171" /\ cert' = cert + 1
    \/ ~threaded /\ mpc = "s177" /\ mpc' = "s199"

\* C29: every dispatched ID satisfies 0 <= id - rangeStart < batch_size with
\* rangeStart = batch_size * (batch - 1), and no ID is dispatched twice in
\* one run of start().
C29_DispatchedOnceInRange ==
    [][DispatchStep =>
          /\ 0 <= cert - BatchSize * (batch - 1)
          /\ cert - BatchSize * (batch - 1) < BatchSize
          /\ cert \notin dispatched
          /\ dispatched' = dispatched \cup {cert}]_vars

\* the last ID of the second batch has just been dispatched sequentially
C29_Witness ==
    /\ ~threaded
    /\ batch = 2
    /\ mpc = "s199"
    /\ cert = BatchSize * 2 - 1
    /\ dispatched = (BatchSize .. (BatchSize * 2 - 1))

\* the keys of a dict's items, in the order of the items, go up
Ascending(items) ==
    \A i, j \in DOMAIN items : i < j => items[i][1] < items[j][1]

\* the worker fetching ID c ends its parseWrapper call with a result
Completes(c) ==
    /\ futures[c].st = "running"
    /\ futures'[c].st = "finished"
    /\ futures'[c].result # Raised

\* C30: when a task becomes Completed the entries of its result map are in
\* ascending ID order, whatever the order in which the parallel fetches
\* completed; the outcome log gets its (ID, outcome) pairs in the order of
\* completion: each completing fetch appends its own pair, and nothing else
\* changes the log of a parallel task.
C30_MapByIdLogByCompletion ==
    [][/\ state' = "COMPLETED" => Ascending(cert_data'.items)
       /\ threaded =>
             /\ \A c \in Range :
                   Completes(c) =>
                       download_log' =
                           Append(download_log, <<c, CertStateOf(futures'[c].result)>>)
             /\ download_log' # download_log => \E c \in Range : Completes(c)]_vars

\* a parallel task is Completed and the fetch of its first ID completed last
C30_Witness ==
    /\ threaded
    /\ state = "COMPLETED"
    /\ Len(download_log) = BatchSize
    /\ download_log[BatchSize][1] = range_start
    /\ Ascending(cert_data.items)

\* the entry v of the result map is the fetched record r without its
\* 'number' field, every other field as fetched and in the same order
RecordWithoutNumber(v, r) ==
    /\ r.kind = "dict"
    /\ v.kind = "dict"
    /\ "number" \in Keys(r)
    /\ "number" \notin Keys(v)
    /\ Keys(v) = Keys(r) \ {"number"}
    /\ \A key \in Keys(v) : Get(v, key) = Get(r, key)
    /\ Len(v.items) = Len(r.items) - 1

\* C31: when the task is Completed or Saved, every Found entry of the
\* result map is the fetched record with 'number' removed and its other
\* fields unchanged, every Absent entry is None and every Failed entry is
\* False, in both modes.
C31_EntriesAreStrippedRecords ==
    state \in {"COMPLETED", "SAVED"} =>
        \A n \in DOMAIN cert_data.items :
            LET c == cert_data.items[n][1]
                v == cert_data.items[n][2]
                r == returned[c]
            IN  /\ r.kind = "dict" => RecordWithoutNumber(v, r)
                /\ r = PyNone => v = PyNone
                /\ r = PyFalse => v = PyFalse
                /\ r \notin {Raised, NotSet}

\* a sequential task is Completed with a Found, an Absent and a Failed entry
C31_Witness ==
    /\ ~threaded
    /\ state = "COMPLETED"
    /\ \E a, b, c \in Range :
          /\ RecordWithoutNumber(Get(cert_data, a), returned[a])
          /\ Get(cert_data, b) = PyNone
          /\ Get(cert_data, c) = PyFalse

\* the ETA the samples times give when remaining items are left: the average
\* of the last min(4, n) samples times remaining, shared among the workers
\* in threaded mode, rounded as eta rounds it
EtaFor(times, remaining) ==
    LET to_average == IF Len(times) < 4 THEN Len(times) ELSE 4
        workers == IF threaded THEN MaxWorkers ELSE 1
    IN  timedelta_str(round(Sum(LastN(times, to_average)) * remaining,
                            to_average * workers))

\* C32: with whole samples, whenever the ETA is defined it is the average of
\* the last min(4, n) samples multiplied by the remaining-item count
\* batch_size - fetched_certs (divided by the worker count in threaded
\* mode), so it is 0 once every item has been fetched.
C32_EtaFromRemainingItems ==
    \A times \in SampleLists :
        eta(times) # PyNone => eta(times) = EtaFor(times, BatchSize - fetched_certs)

\* C34: a saveFile() call reports exactly one error when it fails, chosen
\* by precedence: INVALID_NAME for an unknown placeholder (even when the
\* folder is missing too), otherwise FOLDER_NOT_EXISTS for a missing
\* folder, otherwise FILE_EXISTS for an existing path with overwrite false;
\* a call that meets none of them reports nothing, and nothing else emits
\* saving_error.
C34_OneErrorByPrecedence ==
    [][/\ \A overwrite \in BOOLEAN :
             SaveCall(overwrite) =>
                 saving_error' =
                     IF ~name_valid THEN Append(saving_error, "INVALID_NAME")
                     ELSE IF ~folder_exists
                     THEN Append(saving_error, "FOLDER_NOT_EXISTS")
                     ELSE IF file # NoFile /\ ~overwrite
                     THEN Append(saving_error, "FILE_EXISTS")
                     ELSE saving_error
       /\ saves' = saves => saving_error' = saving_error]_vars

\* the automatic save met a bad template and a missing folder and reported
\* the template only
C34_Witness ==
    /\ ~name_valid
    /\ ~folder_exists
    /\ saves = 1
    /\ mpc = "done"
    /\ saving_error = <<"INVALID_NAME">>

\* C35: a save made with overwrite false never replaces a file, also when
\* another task writes the same path concurrently: when the automatic save
\* of start() (overwrite false) writes at lines 224-225, no file is at
\* the path.
C35_NoReplaceWithoutOverwrite ==
    [][(SavePc("download") = "w224" /\ mpc' # mpc) => file = NoFile]_vars

\* C36: at the time a state_change notification is emitted the stored state
\* already equals the notified state, so an observer reading the state on
\* receiving it reads the state it carries (the notification of the
\* constructor, emitted before any observer is connected, left aside).
C36_StoredIsNotifiedAtEmit ==
    \A n \in DOMAIN state_change :
        n > 1 => state_change[n].stored = state_change[n].new

\* C37: from one download_progress notification to the next the position
\* relative_cert and the percentage progress do not decrease, in either
\* mode, and the percentage notified is within 0..99 while the task is not
\* Saved.
C37_ProgressNeverDecreases ==
    [][download_progress' # download_progress =>
          /\ current_cert # NoCert =>
                /\ relative_cert' >= relative_cert
                /\ progress' >= progress
          /\ state' # "SAVED" => progress' \in 0..99]_vars

\* stop() assigned STOPPED while the task was still CREATED: the download
\* thread was spawned and had not run the first statement of start()
StoppedWhileCreated ==
    \E n \in DOMAIN state_change :
        /\ state_change[n].new = "STOPPED"
        /\ state_change[n].stored = "CREATED"

\* C38: a task stopped while still Created never dispatches a fetch, and
\* once its download thread has ended it is Stopped, in both modes.
C38_StoppedBeforeStartStaysStopped ==
    StoppedWhileCreated =>
        /\ dispatched = {}
        /\ Ended => state = "STOPPED"

\* C39: with the threads scheduled fairly and every fetch returning, the
\* task eventually leaves Started for good: from some point on its state
\* is Completed, Saved or Stopped, whatever stop() does.
C39_EventuallyTerminal ==
    <>[](state \in {"COMPLETED", "SAVED", "STOPPED"} \/ SomeFetchRaised)

\* C33: the model never holds two tasks of the same batch number that are
\* both running.
C33_OneRunningTaskPerBatch ==
    \A i, j \in DOMAIN model_download_items :
        (/\ i # j
         /\ model_download_items[i].batch = model_download_items[j].batch
         /\ model_download_items[i].running)
            => ~model_download_items[j].running

====
